---- MODULE Spec2Model ----
(***************************************************************************)
(* The resilient extraction-and-retry client of services/geminiService.ts: *)
(* cleanAndParseJSON (the response normalizer) and fetchLatestPlayerStats  *)
(* (the retrying call executor).                                           *)
(*                                                                         *)
(* A JavaScript string is a sequence of characters, each a one-character   *)
(* string (Tick stands for the grave accent).  An                          *)
(* optional value (undefined or v) is a sequence of length at most one:    *)
(* <<>> is undefined and <<v>> is v.                                       *)
(***************************************************************************)
EXTENDS Integers, Sequences, FiniteSets, TLC

VARIABLES
  ai,        \* TRUE when the module-level client ai is non-null
  unit,      \* the initial value of delay of the source variant that runs
  pc,        \* position of the invocation: idle, awaiting, waiting, done
  attempts,  \* attempts of fetchLatestPlayerStats
  delay,     \* delay of fetchLatestPlayerStats
  trace,     \* backend calls issued and waits started, in order
  observed,  \* backend outcomes this invocation has received, in order
  parses,    \* the results of the cleanAndParseJSON calls of this invocation
  result,    \* how the invocation ended: none, return (a record), throw
  input,     \* the text handed to cleanAndParseJSON, by its parts
  parsed,    \* what cleanAndParseJSON did with input
  invs       \* the locals of each of several concurrent invocations

vars == <<ai, unit, pc, attempts, delay, trace, observed, parses, result, input, parsed, invs>>

execVars == <<ai, unit, pc, attempts, delay, trace, observed, parses, result>>

normVars == <<input, parsed>>

(***************************************************************************)
(* Bounds of the model.                                                    *)
(***************************************************************************)
\* longest text enumerated character by character
MaxRawLen == 3

\* longest commentary placed before and after a fenced block
MaxCommentLen == 2

\* how many invocations of fetchLatestPlayerStats run concurrently
NumInvocations == 2

(***************************************************************************)
(* Strings.                                                                *)
(***************************************************************************)
Min(S) == CHOOSE x \in S : \A y \in S : x <= y

Max(S) == CHOOSE x \in S : \A y \in S : x >= y

\* s has lit at (1-based) position i
HasPrefixAt(s, i, lit) ==
  /\ i >= 1
  /\ i + Len(lit) - 1 <= Len(s)
  /\ \A k \in 1..Len(lit) : s[i + k - 1] = lit[k]

\* String.prototype.includes
includes(s, lit) == \E i \in 1..(Len(s) + 1) : HasPrefixAt(s, i, lit)

\* String.prototype.indexOf for a one-character needle: 0-based, -1 when absent
indexOf(s, c) ==
  IF \E i \in 1..Len(s) : s[i] = c
  THEN Min({i \in 1..Len(s) : s[i] = c}) - 1
  ELSE -1

\* String.prototype.lastIndexOf for a one-character needle
lastIndexOf(s, c) ==
  IF \E i \in 1..Len(s) : s[i] = c
  THEN Max({i \in 1..Len(s) : s[i] = c}) - 1
  ELSE -1

Clamp(n, len) == IF n < 0 THEN 0 ELSE IF n > len THEN len ELSE n

\* String.prototype.substring: 0-based, end exclusive, arguments clamped to
\* [0, length] and swapped when start > end
substring(s, a, b) ==
  LET x == Clamp(a, Len(s))
      y == Clamp(b, Len(s))
      lo == IF x <= y THEN x ELSE y
      hi == IF x <= y THEN y ELSE x
  IN SubSeq(s, lo + 1, hi)

\* the white space of the JSON grammar, which is also what \s matches among
\* the characters of the texts used here
IsWs(c) == c \in {" ", "\n", "\t", "\r"}

RECURSIVE SkipWs(_, _)
\* first position at or after i that holds no white space (Len(s)+1 at the end)
SkipWs(s, i) == IF i <= Len(s) /\ IsWs(s[i]) THEN SkipWs(s, i + 1) ELSE i

(***************************************************************************)
(* JSON.parse.  A parsed value is tagged by its type:                      *)
(*   [t |-> "null"], [t |-> "bool", b |-> _], [t |-> "num", n |-> _],      *)
(*   [t |-> "str", s |-> _], [t |-> "arr", a |-> _], [t |-> "obj", o |-> _]*)
(* where o maps each key (a string) to its value, the last duplicate       *)
(* winning.  Numbers are the integers; fractions and exponents need the    *)
(* characters . e E +, which no text used here holds.                      *)
(***************************************************************************)
Undefined == [t |-> "undefined"]

NullVal == [t |-> "null"]

BoolVal(b) == [t |-> "bool", b |-> b]

NumVal(n) == [t |-> "num", n |-> n]

StrVal(s) == [t |-> "str", s |-> s]

ArrVal(a) == [t |-> "arr", a |-> a]

ObjVal(o) == [t |-> "obj", o |-> o]

Fail == [ok |-> FALSE]

Ok(v, p) == [ok |-> TRUE, val |-> v, pos |-> p]

Digits == <<"0", "1", "2", "3", "4", "5", "6", "7", "8", "9">>

IsDigit(c) == \E d \in 1..10 : Digits[d] = c

DigitVal(c) == (CHOOSE d \in 1..10 : Digits[d] = c) - 1

RECURSIVE ParseDigits(_, _, _)
\* the digits from position i on, as a number
ParseDigits(s, i, acc) ==
  IF i <= Len(s) /\ IsDigit(s[i])
  THEN ParseDigits(s, i + 1, acc * 10 + DigitVal(s[i]))
  ELSE Ok(acc, i)

\* -? (0 | [1-9][0-9]*)
ParseNumber(s, i) ==
  LET neg == s[i] = "-"
      j == IF neg THEN i + 1 ELSE i
  IN IF j > Len(s) \/ ~IsDigit(s[j]) THEN Fail
     ELSE IF s[j] = "0" THEN Ok(NumVal(0), j + 1)
     ELSE LET r == ParseDigits(s, j, 0)
          IN Ok(NumVal(IF neg THEN 0 - r.val ELSE r.val), r.pos)

RECURSIVE ParseString(_, _, _)
\* the characters of a string literal whose opening quote is before i
ParseString(s, i, acc) ==
  IF i > Len(s) THEN Fail
  ELSE IF s[i] = "\"" THEN Ok(acc, i + 1)
  ELSE IF s[i] \in {"\n", "\t", "\r"} THEN Fail
  ELSE IF s[i] = "\\"
       THEN IF i + 1 <= Len(s) /\ s[i + 1] \in {"\"", "\\", "/"}
            THEN ParseString(s, i + 2, Append(acc, s[i + 1]))
            ELSE Fail
  ELSE ParseString(s, i + 1, Append(acc, s[i]))

RECURSIVE ParseValue(_, _)
RECURSIVE ParseMembers(_, _, _)
RECURSIVE ParseElements(_, _, _)

\* the value that starts at position i (no white space there)
ParseValue(s, i) ==
  IF i > Len(s) THEN Fail
  ELSE CASE s[i] = "{" ->
              LET j == SkipWs(s, i + 1)
              IN IF j <= Len(s) /\ s[j] = "}"
                 THEN Ok(ObjVal(<<>>), j + 1)
                 ELSE ParseMembers(s, j, <<>>)
         [] s[i] = "[" ->
              LET j == SkipWs(s, i + 1)
              IN IF j <= Len(s) /\ s[j] = "]"
                 THEN Ok(ArrVal(<<>>), j + 1)
                 ELSE ParseElements(s, j, <<>>)
         [] s[i] = "\"" ->
              LET r == ParseString(s, i + 1, <<>>)
              IN IF r.ok THEN Ok(StrVal(r.val), r.pos) ELSE Fail
         [] s[i] = "-" \/ IsDigit(s[i]) -> ParseNumber(s, i)
         [] HasPrefixAt(s, i, <<"n", "u", "l", "l">>) -> Ok(NullVal, i + 4)
         [] HasPrefixAt(s, i, <<"t", "r", "u", "e">>) -> Ok(BoolVal(TRUE), i + 4)
         [] HasPrefixAt(s, i, <<"f", "a", "l", "s", "e">>) -> Ok(BoolVal(FALSE), i + 5)
         [] OTHER -> Fail

\* "key" : value, then , or }
ParseMembers(s, i, acc) ==
  IF i > Len(s) \/ s[i] # "\"" THEN Fail
  ELSE LET k == ParseString(s, i + 1, <<>>)
       IN IF ~k.ok THEN Fail
          ELSE LET c == SkipWs(s, k.pos)
               IN IF c > Len(s) \/ s[c] # ":" THEN Fail
                  ELSE LET v == ParseValue(s, SkipWs(s, c + 1))
                       IN IF ~v.ok THEN Fail
                          ELSE LET n == SkipWs(s, v.pos)
                                   acc2 == (k.val :> v.val) @@ acc
                               IN IF n > Len(s) THEN Fail
                                  ELSE IF s[n] = "}" THEN Ok(ObjVal(acc2), n + 1)
                                  ELSE IF s[n] = ","
                                       THEN ParseMembers(s, SkipWs(s, n + 1), acc2)
                                  ELSE Fail

\* value, then , or ]
ParseElements(s, i, acc) ==
  LET v == ParseValue(s, i)
  IN IF ~v.ok THEN Fail
     ELSE LET n == SkipWs(s, v.pos)
              acc2 == Append(acc, v.val)
          IN IF n > Len(s) THEN Fail
             ELSE IF s[n] = "]" THEN Ok(ArrVal(acc2), n + 1)
             ELSE IF s[n] = "," THEN ParseElements(s, SkipWs(s, n + 1), acc2)
             ELSE Fail

\* JSON.parse(s): [ok |-> TRUE, val |-> v], or [ok |-> FALSE] for a SyntaxError
JSONparse(s) ==
  LET r == ParseValue(s, SkipWs(s, 1))
  IN IF r.ok /\ SkipWs(s, r.pos) = Len(s) + 1
     THEN [ok |-> TRUE, val |-> r.val]
     ELSE [ok |-> FALSE]

(***************************************************************************)
(* text.match of the fenced-block pattern: three backticks, an optional    *)
(* json tag, greedy white space, a lazy group 1 of any characters, greedy  *)
(* white space, three backticks.  The leftmost match and its group 1.      *)
(***************************************************************************)
\* the grave accent U+0060, which a TLA+ string literal cannot hold
Tick == "grave"

Fence == <<Tick, Tick, Tick>>

JsonTag == <<"j", "s", "o", "n">>

\* GroupStart for a pattern that lacks the optional json tag
GroupStartNoTag(s, p) == SkipWs(s, p + 3)

\* where group 1 starts for a match that starts at p: after the fence, the
\* tag when it is there and all the white space (both are greedy).
\* Giving back white space or the tag cannot turn a failed match into a
\* match, so this is the only start the backtracking ever settles on.
GroupStart(s, p) ==
  SkipWs(s, IF HasPrefixAt(s, p + 3, JsonTag) THEN p + 7 ELSE p + 3)

\* white space and then the closing fence match at position e
ClosesAt(s, e) == HasPrefixAt(s, SkipWs(s, e), Fence)

\* the positions where group 1 may end (exclusive) for a match starting at p
GroupEnds(s, p) == {e \in GroupStart(s, p)..(Len(s) + 1) : ClosesAt(s, e)}

\* match: <<>> for null, else <<group 1>>; the lazy group ends at the first
\* position that lets the rest match
MatchFence(s) ==
  LET starts == {p \in 1..Len(s) : HasPrefixAt(s, p, Fence) /\ GroupEnds(s, p) # {}}
  IN IF starts = {} THEN <<>>
     ELSE LET p == Min(starts)
          IN <<SubSeq(s, GroupStart(s, p), Min(GroupEnds(s, p)) - 1)>>

(***************************************************************************)
(* Errors.  An error is [name, status, message]; status and message are    *)
(* optional.                                                               *)
(***************************************************************************)
MsgFailedToParse == <<"F", "a", "i", "l", "e", "d", " ", "t", "o", " ", "p", "a", "r", "s", "e", " ", "J", "S", "O", "N", " ", "f", "r", "o", "m", " ", "r", "e", "s", "p", "o", "n", "s", "e">>

MsgNoJSONFound == <<"N", "o", " ", "J", "S", "O", "N", " ", "f", "o", "u", "n", "d", " ", "i", "n", " ", "r", "e", "s", "p", "o", "n", "s", "e">>

NewError(msg) == [name |-> "Error", status |-> <<>>, message |-> <<msg>>]

(***************************************************************************)
(* cleanAndParseJSON.  The result is [ok |-> TRUE, val |-> v] for a return *)
(* and [ok |-> FALSE, error |-> e] for a throw; ran lists the JSON.parse   *)
(* calls made, in order: direct, fenced, brace.                            *)
(***************************************************************************)
Returned(v, ran) == [ok |-> TRUE, val |-> v, ran |-> ran]

Threw(e, ran) == [ok |-> FALSE, error |-> e, ran |-> ran]

\* BraceSpan with || for && in the test of start and end
BraceSpanEither(text, ran) ==
  LET start == indexOf(text, "{")
      end == lastIndexOf(text, "}")
  IN IF start # -1 \/ end # -1
     THEN LET b == JSONparse(substring(text, start, end + 1))
          IN IF b.ok
             THEN Returned(b.val, Append(ran, "brace"))
             ELSE Threw(NewError(MsgFailedToParse), Append(ran, "brace"))
     ELSE Threw(NewError(MsgNoJSONFound), ran)

\* BraceSpan with end for end + 1
BraceSpanExclusive(text, ran) ==
  LET start == indexOf(text, "{")
      end == lastIndexOf(text, "}")
  IN IF start # -1 /\ end # -1
     THEN LET b == JSONparse(substring(text, start, end))
          IN IF b.ok
             THEN Returned(b.val, Append(ran, "brace"))
             ELSE Threw(NewError(MsgFailedToParse), Append(ran, "brace"))
     ELSE Threw(NewError(MsgNoJSONFound), ran)

\* step 3 of cleanAndParseJSON: the span from the first { to the last }
BraceSpan(text, ran) ==
  LET start == indexOf(text, "{")
      end == lastIndexOf(text, "}")
  IN IF start # -1 /\ end # -1
     THEN LET b == JSONparse(substring(text, start, end + 1))
          IN IF b.ok
             THEN Returned(b.val, Append(ran, "brace"))
             ELSE Threw(NewError(MsgFailedToParse), Append(ran, "brace"))
     ELSE Threw(NewError(MsgNoJSONFound), ran)

\* cleanAndParseJSON without its step 1, the direct parse
cleanAndParseJSONNoDirect(text) ==
  LET match == MatchFence(text)
  IN IF match # <<>>
     THEN LET f == JSONparse(match[1])
          IN IF f.ok
             THEN Returned(f.val, <<"fenced">>)
             ELSE BraceSpan(text, <<"fenced">>)
     ELSE BraceSpan(text, <<>>)

\* cleanAndParseJSON with the brace span tried before the fenced block
cleanAndParseJSONBraceFirst(text) ==
  LET d == JSONparse(text)
  IN IF d.ok
     THEN Returned(d.val, <<"direct">>)
     ELSE LET b == BraceSpan(text, <<"direct">>)
              match == MatchFence(text)
          IN IF b.ok
             THEN b
             ELSE IF match # <<>> /\ JSONparse(match[1]).ok
                  THEN Returned(JSONparse(match[1]).val, Append(b.ran, "fenced"))
                  ELSE b

\* cleanAndParseJSON with the brace span of a failed block taken over the
\* interior of the block
cleanAndParseJSONInteriorSpan(text) ==
  LET d == JSONparse(text)
  IN IF d.ok
     THEN Returned(d.val, <<"direct">>)
     ELSE LET match == MatchFence(text)
          IN IF match # <<>>
             THEN LET f == JSONparse(match[1])
                  IN IF f.ok
                     THEN Returned(f.val, <<"direct", "fenced">>)
                     ELSE BraceSpan(match[1], <<"direct", "fenced">>)
             ELSE BraceSpan(text, <<"direct">>)

cleanAndParseJSON(text) ==
  LET d == JSONparse(text)
  IN IF d.ok THEN Returned(d.val, <<"direct">>)
     ELSE LET match == MatchFence(text)
          IN IF match # <<>>
             THEN LET f == JSONparse(match[1])
                  IN IF f.ok
                     THEN Returned(f.val, <<"direct", "fenced">>)
                     ELSE BraceSpan(text, <<"direct", "fenced">>)
             ELSE BraceSpan(text, <<"direct">>)

(***************************************************************************)
(* fetchLatestPlayerStats: its constants, the classification of a caught   *)
(* error and the record it returns.                                        *)
(***************************************************************************)
maxAttempts == 3

\* let delay = 2000 (services/geminiService.ts, part_000, part_001)
InitialDelay == 2000

\* let delay = 3000 (part_002)
InitialDelayThinking == 3000

MsgApiKeyNotFound == <<"A", "P", "I", " ", "K", "e", "y", " ", "n", "o", "t", " ", "f", "o", "u", "n", "d", ".">>

MsgNoResponse == <<"N", "o", " ", "r", "e", "s", "p", "o", "n", "s", "e", " ", "f", "r", "o", "m", " ", "A", "I">>

MsgUsageLimit == <<"A", "P", "I", " ", "U", "s", "a", "g", "e", " ", "L", "i", "m", "i", "t", " ", "R", "e", "a", "c", "h", "e", "d", ".", " ", "P", "l", "e", "a", "s", "e", " ", "w", "a", "i", "t", " ", "a", " ", "m", "i", "n", "u", "t", "e", " ", "b", "e", "f", "o", "r", "e", " ", "t", "r", "y", "i", "n", "g", " ", "a", "g", "a", "i", "n", ".">>

MsgAfterLoop == <<"F", "a", "i", "l", "e", "d", " ", "t", "o", " ", "f", "e", "t", "c", "h", " ", "s", "t", "a", "t", "s", " ", "a", "f", "t", "e", "r", " ", "m", "u", "l", "t", "i", "p", "l", "e", " ", "a", "t", "t", "e", "m", "p", "t", "s", ".">>

\* what the engine throws for data.matches when data is null
MsgNullRead == <<"C", "a", "n", "n", "o", "t", " ", "r", "e", "a", "d", " ", "p", "r", "o", "p", "e", "r", "t", "i", "e", "s", " ", "o", "f", " ", "n", "u", "l", "l", " ", "(", "r", "e", "a", "d", "i", "n", "g", " ", "'", "m", "a", "t", "c", "h", "e", "s", "'", ")">>

NullReadError == [name |-> "TypeError", status |-> <<>>, message |-> <<MsgNullRead>>]

Needle429 == <<"4", "2", "9">>

NeedleResourceExhausted == <<"R", "E", "S", "O", "U", "R", "C", "E", "_", "E", "X", "H", "A", "U", "S", "T", "E", "D">>

NeedleQuota == <<"q", "u", "o", "t", "a">>

\* isQuotaError by the status alone
isQuotaErrorStatusOnly(error) == error.status = <<429>>

\* error.status === 429 || (error.message && (... includes ...))
isQuotaError(error) ==
  \/ error.status = <<429>>
  \/ /\ error.message # <<>>
     /\ error.message[1] # <<>>
     /\ \/ includes(error.message[1], Needle429)
        \/ includes(error.message[1], NeedleResourceExhausted)
        \/ includes(error.message[1], NeedleQuota)

kMatches == <<"m", "a", "t", "c", "h", "e", "s">>

kInnings == <<"i", "n", "n", "i", "n", "g", "s">>

kRuns == <<"r", "u", "n", "s">>

kBallsFaced == <<"b", "a", "l", "l", "s", "F", "a", "c", "e", "d">>

kBattingAverage == <<"b", "a", "t", "t", "i", "n", "g", "A", "v", "e", "r", "a", "g", "e">>

kBattingStrikeRate == <<"b", "a", "t", "t", "i", "n", "g", "S", "t", "r", "i", "k", "e", "R", "a", "t", "e">>

kHighestScore == <<"h", "i", "g", "h", "e", "s", "t", "S", "c", "o", "r", "e">>

kOvers == <<"o", "v", "e", "r", "s">>

kWickets == <<"w", "i", "c", "k", "e", "t", "s">>

kRunsConceded == <<"r", "u", "n", "s", "C", "o", "n", "c", "e", "d", "e", "d">>

kEconomy == <<"e", "c", "o", "n", "o", "m", "y">>

kBowlingAverage == <<"b", "o", "w", "l", "i", "n", "g", "A", "v", "e", "r", "a", "g", "e">>

kBowlingStrikeRate == <<"b", "o", "w", "l", "i", "n", "g", "S", "t", "r", "i", "k", "e", "R", "a", "t", "e">>

kBestBowling == <<"b", "e", "s", "t", "B", "o", "w", "l", "i", "n", "g">>

kRecentMatches == <<"r", "e", "c", "e", "n", "t", "M", "a", "t", "c", "h", "e", "s">>

kSummary == <<"s", "u", "m", "m", "a", "r", "y">>

kRole == <<"r", "o", "l", "e">>

sUnknown == <<"U", "n", "k", "n", "o", "w", "n">>

\* new Date().toISOString(): the clock's reading, one fixed instant here
sNow == <<"2", "0", "2", "5", "-", "1", "2", "-", "0", "1", "T", "0", "0", ":", "0", "0", ":", "0", "0", "Z">>

\* data.key for a non-null data: an own property of an object, else undefined
Get(data, key) ==
  IF data.t = "obj" /\ key \in DOMAIN data.o THEN data.o[key] ELSE Undefined

\* a value that || skips
Falsy(v) ==
  \/ v.t \in {"undefined", "null"}
  \/ v.t = "bool" /\ ~v.b
  \/ v.t = "num" /\ v.n = 0
  \/ v.t = "str" /\ v.s = <<>>

\* a || b
OrElse(a, b) == IF Falsy(a) THEN b ELSE a

\* the stats object of the return statement
Stats(data) ==
  [matches |-> OrElse(Get(data, kMatches), NumVal(0)),
   innings |-> Get(data, kInnings),
   runs |-> Get(data, kRuns),
   ballsFaced |-> Get(data, kBallsFaced),
   battingAverage |-> Get(data, kBattingAverage),
   battingStrikeRate |-> Get(data, kBattingStrikeRate),
   highestScore |-> Get(data, kHighestScore),
   overs |-> Get(data, kOvers),
   wickets |-> Get(data, kWickets),
   runsConceded |-> Get(data, kRunsConceded),
   economy |-> Get(data, kEconomy),
   bowlingAverage |-> Get(data, kBowlingAverage),
   bowlingStrikeRate |-> Get(data, kBowlingStrikeRate),
   bestBowling |-> Get(data, kBestBowling),
   recentMatches |-> OrElse(Get(data, kRecentMatches), ArrVal(<<>>)),
   summary |-> Get(data, kSummary),
   lastUpdated |-> StrVal(sNow)]

\* the object of the return statement; sourceUrl is optional
ReturnValue(data, sourceUrl) ==
  [stats |-> Stats(data),
   role |-> OrElse(Get(data, kRole), StrVal(sUnknown)),
   source |-> IF sourceUrl = <<>> THEN Undefined ELSE StrVal(sourceUrl[1])]

(***************************************************************************)
(* What the backend may answer: a rejection with an error, or a response   *)
(* with optional text and an optional grounding source.                    *)
(***************************************************************************)
ApiError(status, message) == [name |-> "ApiError", status |-> status, message |-> message]

BackendErrors ==
  {ApiError(<<429>>, <<<<"b", "u", "s", "y">>>>),
   ApiError(<<>>, <<<<"g", "o", "t", " ", "4", "2", "9">>>>),
   ApiError(<<>>, <<NeedleResourceExhausted>>),
   ApiError(<<503>>, <<<<"n", "o", " ", "q", "u", "o", "t", "a", " ", "l", "e", "f", "t">>>>),
   ApiError(<<>>, <<<<"Q", "u", "o", "t", "a">>>>),
   ApiError(<<500>>, <<<<"d", "o", "w", "n">>>>),
   ApiError(<<400>>, <<<<>>>>),
   ApiError(<<>>, <<>>)}

Quoted(k) == <<"\"">> \o k \o <<"\"">>

\* {"matches":2,"innings":1}
TextTwoFields ==
  <<"{">> \o Quoted(kMatches) \o <<":", "2", ",">> \o Quoted(kInnings) \o <<":", "1", "}">>

\* {"matches":null,"runs":null}
TextNullFields ==
  <<"{">> \o Quoted(kMatches) \o <<":", "n", "u", "l", "l", ",">>
          \o Quoted(kRuns) \o <<":", "n", "u", "l", "l", "}">>

\* a fenced block, tagged json, holding {"runs":5}, with prose around it
TextFenced ==
  <<"o", "k", " ">> \o Fence \o JsonTag \o <<"\n", "{">> \o Quoted(kRuns)
    \o <<":", "5", "}", "\n">> \o Fence \o <<" ", "a">>

ResponseTexts ==
  {<<>>,
   <<<<>>>>,
   <<TextTwoFields>>,
   <<TextNullFields>>,
   <<TextFenced>>,
   <<<<"{", "}">>>>,
   <<<<"n", "u", "l", "l">>>>,
   <<<<"7">>>>,
   <<<<"{", "a", "}">>>>,
   <<<<"n", "o">>>>}

SourceUrls == {<<>>, <<<<"u">>>>}

Rejected(error) == [kind |-> "reject", error |-> error]

Resolved(text, sourceUrl) == [kind |-> "resolve", text |-> text, sourceUrl |-> sourceUrl]

(***************************************************************************)
(* The texts handed to cleanAndParseJSON on its own: every short text over *)
(* RawSigma, and fenced blocks with commentary before and after.           *)
(***************************************************************************)
RawSigma == {"{", "}", "a", "1", "\"", " "}

CommentSigma == {"a", "{", "\"", Tick}

Strings(sigma, n) == UNION {[1..k -> sigma] : k \in 0..n}

\* {"a":1}
BodyObject == <<"{", "\"", "a", "\"", ":", "1", "}">>

\* an object whose string value is three grave accents
BodyObjectWithFence == <<"{", "\"", "a", "\"", ":", "\"">> \o Fence \o <<"\"", "}">>

Bodies == {<<"{", "}">>, BodyObject, BodyObjectWithFence, <<"{", "a">>, <<"1">>}

\* the opening and closing delimiters of a block: bare, or tagged json with
\* line breaks inside
Wraps == {<<Fence, Fence>>, <<Fence \o JsonTag \o <<"\n">>, <<"\n">> \o Fence>>}

NoParts == [fenced |-> FALSE, pre |-> <<>>, open |-> <<>>, body |-> <<>>, close |-> <<>>, post |-> <<>>]

\* what may stand around a block that is not fenced
Margins == {<<>>, <<" ">>, <<"a">>, <<"\"">>, <<"{">>, <<"}">>}

\* a{"a":"FENCE 1 FENCE"}: the interior of the block is the number 1 and the
\* span from the first { to the last } is an object
NestedFence ==
  [fenced |-> TRUE, pre |-> <<"a", "{", "\"", "a", "\"", ":", "\"">>, open |-> Fence,
   body |-> <<"1">>, close |-> Fence, post |-> <<"\"", "}">>]

NormInputs ==
  {[NoParts EXCEPT !.pre = t] : t \in Strings(RawSigma, MaxRawLen)}
  \cup {[NoParts EXCEPT !.pre = a, !.body = b, !.post = z] :
          a \in Margins, b \in Bodies, z \in Margins}
  \cup {[fenced |-> TRUE, pre |-> a, open |-> w[1], body |-> b, close |-> w[2], post |-> z] :
          a \in Strings(CommentSigma, MaxCommentLen), w \in Wraps, b \in Bodies,
          z \in Strings(CommentSigma, MaxCommentLen)}
  \cup {NestedFence}

TextOf(in) == in.pre \o in.open \o in.body \o in.close \o in.post

(***************************************************************************)
(* The executor.  fetchLatestPlayerStats runs from one await to the next:  *)
(* Invoke up to the first backend call, BackendResolves and BackendRejects *)
(* from the backend's answer to the return, the throw or the wait, and     *)
(* WaitElapsed from the end of the wait to the next backend call.          *)
(***************************************************************************)
Invocations == 1..NumInvocations

\* the locals of an invocation that has not been called yet
NotInvoked ==
  [pc |-> "idle", attempts |-> 0, delay |-> 0, trace |-> <<>>, observed |-> <<>>,
   result |-> [kind |-> "none"]]

CallEvent == [e |-> "call", ms |-> 0]

WaitEvent(ms) == [e |-> "wait", ms |-> ms]

NoResult == [kind |-> "none"]

Return(v) == [kind |-> "return", value |-> v]

Throw(e) == [kind |-> "throw", error |-> e]

\* the head of the while loop with counter a: the next backend call is
\* issued, or the loop is left and the statement after it throws
LoopHead(a) ==
  IF a < maxAttempts
  THEN /\ trace' = Append(trace, CallEvent)
       /\ pc' = "awaiting"
       /\ result' = result
  ELSE /\ trace' = trace
       /\ pc' = "done"
       /\ result' = Throw(NewError(MsgAfterLoop))

\* the catch block with attempts < maxAttempts for attempts < maxAttempts - 1
CatchOffByOne(error) ==
  IF isQuotaError(error) /\ attempts < maxAttempts
  THEN /\ trace' = Append(trace, WaitEvent(delay))
       /\ pc' = "waiting"
       /\ result' = result
  ELSE /\ trace' = trace
       /\ pc' = "done"
       /\ result' = IF isQuotaError(error)
                    THEN Throw(NewError(MsgUsageLimit))
                    ELSE Throw(error)

\* the catch block retrying whatever the error is
CatchRetryAll(error) ==
  IF attempts < maxAttempts - 1
  THEN /\ trace' = Append(trace, WaitEvent(delay))
       /\ pc' = "waiting"
       /\ result' = result
  ELSE /\ trace' = trace
       /\ pc' = "done"
       /\ result' = IF isQuotaError(error)
                    THEN Throw(NewError(MsgUsageLimit))
                    ELSE Throw(error)

\* the catch block with the usage-limit error thrown for every final error
CatchOneError(error) ==
  IF isQuotaError(error) /\ attempts < maxAttempts - 1
  THEN /\ trace' = Append(trace, WaitEvent(delay))
       /\ pc' = "waiting"
       /\ result' = result
  ELSE /\ trace' = trace
       /\ pc' = "done"
       /\ result' = Throw(NewError(MsgUsageLimit))

\* the catch block retrying without the wait
CatchNoWait(error) ==
  IF isQuotaError(error) /\ attempts < maxAttempts - 1
  THEN /\ trace' = Append(trace, CallEvent)
       /\ pc' = "awaiting"
       /\ result' = result
  ELSE /\ trace' = trace
       /\ pc' = "done"
       /\ result' = IF isQuotaError(error)
                    THEN Throw(NewError(MsgUsageLimit))
                    ELSE Throw(error)

\* the catch block
Catch(error) ==
  IF isQuotaError(error) /\ attempts < maxAttempts - 1
  THEN /\ trace' = Append(trace, WaitEvent(delay))
       /\ pc' = "waiting"
       /\ result' = result
  ELSE /\ trace' = trace
       /\ pc' = "done"
       /\ result' = IF isQuotaError(error)
                    THEN Throw(NewError(MsgUsageLimit))
                    ELSE Throw(error)

\* the try block with text === undefined for !text
TryOnlyAbsent(response) ==
  IF response.text = <<>>
  THEN /\ parses' = parses
       /\ Catch(NewError(MsgNoResponse))
  ELSE LET r == cleanAndParseJSON(response.text[1])
       IN /\ parses' = Append(parses, r)
          /\ IF ~r.ok THEN Catch(r.error)
             ELSE IF r.val.t = "null" THEN Catch(NullReadError)
             ELSE /\ trace' = trace
                  /\ pc' = "done"
                  /\ result' = Return(ReturnValue(r.val, response.sourceUrl))

\* the try block after the backend has answered with response
Try(response) ==
  IF response.text = <<>> \/ response.text[1] = <<>>
  THEN /\ parses' = parses
       /\ Catch(NewError(MsgNoResponse))
  ELSE LET r == cleanAndParseJSON(response.text[1])
       IN /\ parses' = Append(parses, r)
          /\ IF ~r.ok THEN Catch(r.error)
             ELSE IF r.val.t = "null" THEN Catch(NullReadError)
             ELSE /\ trace' = trace
                  /\ pc' = "done"
                  /\ result' = Return(ReturnValue(r.val, response.sourceUrl))

\* Invoke without the test of ai
InvokeUnchecked ==
  /\ pc = "idle"
  /\ attempts' = 0
  /\ delay' = unit
  /\ LoopHead(0)
  /\ UNCHANGED <<ai, unit, observed, parses, normVars, invs>>

Invoke ==
  /\ pc = "idle"
  /\ IF ~ai
     THEN /\ pc' = "done"
          /\ result' = Throw(NewError(MsgApiKeyNotFound))
          /\ UNCHANGED <<attempts, delay, trace>>
     ELSE /\ attempts' = 0
          /\ delay' = unit
          /\ LoopHead(0)
  /\ UNCHANGED <<ai, unit, observed, parses, normVars, invs>>

BackendResolves ==
  /\ pc = "awaiting"
  /\ \E text \in ResponseTexts, sourceUrl \in SourceUrls :
       /\ observed' = Append(observed, Resolved(text, sourceUrl))
       /\ Try(Resolved(text, sourceUrl))
  /\ UNCHANGED <<ai, unit, attempts, delay, normVars, invs>>

BackendRejects ==
  /\ pc = "awaiting"
  /\ \E error \in BackendErrors :
       /\ observed' = Append(observed, Rejected(error))
       /\ Catch(error)
  /\ UNCHANGED <<ai, unit, attempts, delay, parses, normVars, invs>>

\* the backoff step with delay += unit for delay *= 2
WaitElapsedLinear ==
  /\ pc = "waiting"
  /\ delay' = delay + unit
  /\ attempts' = attempts + 1
  /\ LoopHead(attempts + 1)
  /\ UNCHANGED <<ai, unit, observed, parses, normVars, invs>>

\* wait(ms) with a promise that is never resolved
WaitNeverElapses ==
  /\ pc = "waiting"
  /\ FALSE
  /\ UNCHANGED vars

WaitElapsed ==
  /\ pc = "waiting"
  /\ delay' = delay * 2
  /\ attempts' = attempts + 1
  /\ LoopHead(attempts + 1)
  /\ UNCHANGED <<ai, unit, observed, parses, normVars, invs>>

Init ==
  /\ ai \in BOOLEAN
  /\ unit \in {InitialDelay, InitialDelayThinking}
  /\ pc = "idle"
  /\ attempts = 0
  /\ delay = 0
  /\ trace = <<>>
  /\ observed = <<>>
  /\ parses = <<>>
  /\ result = NoResult
  /\ input = NoParts
  /\ parsed = <<>>
  /\ invs = [i \in Invocations |-> NotInvoked]

Next == Invoke \/ BackendResolves \/ BackendRejects \/ WaitElapsed

Spec == Init /\ [][Next]_vars

(***************************************************************************)
(* cleanAndParseJSON on its own: one text, normalized once.                *)
(***************************************************************************)
Normalize ==
  /\ parsed = <<>>
  /\ parsed' = <<cleanAndParseJSON(TextOf(input))>>
  /\ UNCHANGED <<input, execVars, invs>>

InitNorm ==
  /\ ai = TRUE
  /\ unit = InitialDelay
  /\ pc = "idle"
  /\ attempts = 0
  /\ delay = 0
  /\ trace = <<>>
  /\ observed = <<>>
  /\ parses = <<>>
  /\ result = NoResult
  /\ input \in NormInputs
  /\ parsed = <<>>
  /\ invs = [i \in Invocations |-> NotInvoked]

NextNorm == Normalize

SpecNorm == InitNorm /\ [][NextNorm]_vars

(***************************************************************************)
(* Vocabulary of the properties.                                           *)
(***************************************************************************)
\* the backend errors the catch block is to classify as quota errors:
\* status 429, or a message holding 429, RESOURCE_EXHAUSTED or quota
QuotaErrors ==
  {ApiError(<<429>>, <<<<"b", "u", "s", "y">>>>),
   ApiError(<<>>, <<<<"g", "o", "t", " ", "4", "2", "9">>>>),
   ApiError(<<>>, <<NeedleResourceExhausted>>),
   ApiError(<<503>>, <<<<"n", "o", " ", "q", "u", "o", "t", "a", " ", "l", "e", "f", "t">>>>)}

OtherErrors == BackendErrors \ QuotaErrors

QuotaReject(o) == o.kind = "reject" /\ o.error \in QuotaErrors

OtherReject(o) == o.kind = "reject" /\ o.error \in OtherErrors

CallCount == Cardinality({i \in DOMAIN trace : trace[i].e = "call"})

WaitCount == Cardinality({i \in DOMAIN trace : trace[i].e = "wait"})

\* calls and waits alternate, starting with a call
Alternates == \A i \in DOMAIN trace : trace[i].e = (IF i % 2 = 1 THEN "call" ELSE "wait")

LastObserved == observed[Len(observed)]

\* the response carries a text that cleanAndParseJSON returns a value for
ParseableText(o) ==
  /\ o.kind = "resolve"
  /\ o.text # <<>>
  /\ o.text[1] # <<>>
  /\ cleanAndParseJSON(o.text[1]).ok

\* the response carries a text that no stage of cleanAndParseJSON parses
UnparseableText(o) ==
  /\ o.kind = "resolve"
  /\ o.text # <<>>
  /\ o.text[1] # <<>>
  /\ ~cleanAndParseJSON(o.text[1]).ok

ExtractionErrors == {NewError(MsgFailedToParse), NewError(MsgNoJSONFound)}

\* the step in which the invocation receives a backend outcome
Receives == pc = "awaiting" /\ Len(observed') = Len(observed) + 1

Received == observed'[Len(observed')]

(***************************************************************************)
(* C1.  Two quota failures and then a response with parseable text: the    *)
(* invocation returns the record, after exactly two waits, each between    *)
(* two backend calls, the second twice the first (2000 then 4000, or 3000  *)
(* then 6000).  The code does not return when the text parses to null.     *)
(***************************************************************************)
C1_TwiceQuotaThenRecord ==
  ( /\ pc = "done"
    /\ Len(observed) = 3
    /\ QuotaReject(observed[1])
    /\ QuotaReject(observed[2])
    /\ ParseableText(observed[3]) )
  => /\ result.kind = "return"
     /\ trace = <<CallEvent, WaitEvent(unit), CallEvent, WaitEvent(2 * unit), CallEvent>>
     /\ unit \in {2000, 3000}

(***************************************************************************)
(* C2.  An invocation issues at most maxAttempts = 3 backend calls; when   *)
(* every call fails with a quota error it issues exactly 3 calls, waits    *)
(* exactly twice and throws the usage-limit error.                         *)
(***************************************************************************)
C2_BoundedAttempts ==
  /\ CallCount <= 3
  /\ ( /\ pc = "done"
       /\ observed # <<>>
       /\ \A i \in DOMAIN observed : QuotaReject(observed[i]) )
     => /\ CallCount = 3
        /\ WaitCount = 2
        /\ Alternates
        /\ result = Throw(NewError(MsgUsageLimit))

C2_Witness ==
  /\ pc = "done"
  /\ Len(observed) = 3
  /\ \A i \in DOMAIN observed : QuotaReject(observed[i])
  /\ result = Throw(NewError(MsgUsageLimit))

(***************************************************************************)
(* C3.  A backend failure that is not a quota error ends the invocation in *)
(* the step that receives it, at any attempt index: that same error is     *)
(* thrown, no wait is started, attempts and delay keep their values, and   *)
(* nothing happens afterwards (no further backend call).                   *)
(***************************************************************************)
C3_NonQuotaFailsAtOnce ==
  [][ /\ (Receives /\ OtherReject(Received))
         => /\ pc' = "done"
            /\ result' = Throw(Received.error)
            /\ trace' = trace
            /\ attempts' = attempts
            /\ delay' = delay
      /\ ~(pc = "done" /\ observed # <<>> /\ OtherReject(LastObserved)) ]_vars

C3_Witness ==
  /\ pc = "done"
  /\ Len(observed) = 3
  /\ attempts = 2
  /\ OtherReject(observed[3])
  /\ result = Throw(observed[3].error)

(***************************************************************************)
(* C4.  A response whose text no stage of cleanAndParseJSON parses ends    *)
(* the invocation in the step that receives it, at any attempt index: one  *)
(* of the two extraction errors is thrown, no wait is started and no       *)
(* further backend call is issued.                                         *)
(***************************************************************************)
C4_UnparseableFailsAtOnce ==
  [][ /\ (Receives /\ UnparseableText(Received))
         => /\ pc' = "done"
            /\ result'.kind = "throw"
            /\ result'.error \in ExtractionErrors
            /\ result'.error = cleanAndParseJSON(Received.text[1]).error
            /\ trace' = trace
      /\ (Receives /\ Received.kind = "resolve" /\ Received.text = <<<<"{", "a", "}">>>>)
         => result' = Throw(NewError(MsgFailedToParse))
      /\ (Receives /\ Received.kind = "resolve" /\ Received.text = <<<<"n", "o">>>>)
         => result' = Throw(NewError(MsgNoJSONFound))
      /\ ~(pc = "done" /\ observed # <<>> /\ UnparseableText(LastObserved)) ]_vars

C4_Witness ==
  /\ pc = "done"
  /\ Len(observed) = 2
  /\ attempts = 1
  /\ UnparseableText(observed[2])
  /\ result = Throw(NewError(MsgFailedToParse))

(***************************************************************************)
(* C5.  Without a credential (ai is null) the invocation throws the        *)
(* API Key not found error before the first attempt: no backend call, no   *)
(* wait, and the retry loop is never entered.                              *)
(***************************************************************************)
C5_NoCredentialNoAttempt ==
  ~ai => /\ trace = <<>>
         /\ attempts = 0
         /\ delay = 0
         /\ observed = <<>>
         /\ parses = <<>>
         /\ pc \in {"idle", "done"}
         /\ pc = "done" => result = Throw(NewError(MsgApiKeyNotFound))

C5_Witness == ~ai /\ pc = "done" /\ result.kind = "throw"

(***************************************************************************)
(* C6.  After a response for whose text cleanAndParseJSON returns a value, *)
(* whatever the value (a parsed null too), the invocation ends by          *)
(* returning a record; it throws after a normalized response only when     *)
(* cleanAndParseJSON threw.  The code throws a TypeError for null.         *)
(***************************************************************************)
C6_NormalizedMeansReturned ==
  (pc = "done" /\ observed # <<>> /\ LastObserved.kind = "resolve" /\ parses # <<>>)
  => /\ parses[Len(parses)].ok => result.kind = "return"
     /\ result.kind = "throw" => ~parses[Len(parses)].ok

(***************************************************************************)
(* C7.  In every returned record each numeric field that is absent or null *)
(* in the parsed object holds its default 0 and is never undefined.  The   *)
(* code defaults matches only.                                             *)
(***************************************************************************)
NumericFields ==
  {<<"matches", kMatches>>, <<"innings", kInnings>>, <<"runs", kRuns>>,
   <<"ballsFaced", kBallsFaced>>, <<"battingAverage", kBattingAverage>>,
   <<"battingStrikeRate", kBattingStrikeRate>>, <<"overs", kOvers>>,
   <<"wickets", kWickets>>, <<"runsConceded", kRunsConceded>>,
   <<"economy", kEconomy>>, <<"bowlingAverage", kBowlingAverage>>,
   <<"bowlingStrikeRate", kBowlingStrikeRate>>}

C7_NumericFieldsDefaulted ==
  (pc = "done" /\ result.kind = "return")
  => \A f \in NumericFields :
       LET data == parses[Len(parses)].val
           got == result.value.stats[f[1]]
       IN /\ got.t # "undefined"
          /\ Get(data, f[2]).t \in {"undefined", "null"} => got = NumVal(0)

(***************************************************************************)
(* C8.  As claimed: every text with no opening brace or no closing brace   *)
(* makes cleanAndParseJSON throw.                                          *)
(***************************************************************************)
NoBracePair(text) == indexOf(text, "{") = -1 \/ lastIndexOf(text, "}") = -1

C8_NoBracePairThrows ==
  (parsed # <<>> /\ NoBracePair(TextOf(input))) => ~parsed[1].ok

\* the interior of the first fenced block of text is valid JSON
FencedInteriorParses(text) ==
  MatchFence(text) # <<>> /\ JSONparse(MatchFence(text)[1]).ok

(***************************************************************************)
(* C8, amended.  Every text with no opening brace or no closing brace that *)
(* is not valid JSON as a whole and holds no fenced block with a valid     *)
(* JSON interior makes cleanAndParseJSON throw No JSON found in response,  *)
(* without a brace-span parse.                                             *)
(***************************************************************************)
C8_NoBracePairNoJSONThrows ==
  ( /\ parsed # <<>>
    /\ NoBracePair(TextOf(input))
    /\ ~JSONparse(TextOf(input)).ok
    /\ ~FencedInteriorParses(TextOf(input)) )
  => /\ ~parsed[1].ok
     /\ parsed[1].error = NewError(MsgNoJSONFound)
     /\ \A i \in DOMAIN parsed[1].ran : parsed[1].ran[i] # "brace"

C8_Witness ==
  /\ parsed # <<>>
  /\ indexOf(TextOf(input), "{") # -1
  /\ lastIndexOf(TextOf(input), "}") = -1
  /\ input.fenced
  /\ ~parsed[1].ok
  /\ parsed[1].error = NewError(MsgNoJSONFound)

(***************************************************************************)
(* C9.  A text that is a JSON object and nothing else (white space apart)  *)
(* is returned as its direct parse, fields unchanged, and neither the      *)
(* fenced-block parse nor the brace-span parse is run.                     *)
(***************************************************************************)
C9_CleanObjectDirect ==
  /\ ( /\ parsed # <<>>
       /\ JSONparse(TextOf(input)).ok
       /\ JSONparse(TextOf(input)).val.t = "obj" )
     => parsed[1] = Returned(JSONparse(TextOf(input)).val, <<"direct">>)
  /\ (parsed # <<>> /\ TextOf(input) \in {BodyObject, <<" ">> \o BodyObject \o <<" ">>})
     => parsed[1] = Returned(ObjVal(<<"a">> :> NumVal(1)), <<"direct">>)
  /\ (parsed # <<>> /\ TextOf(input) = <<"{", " ", "}">>)
     => parsed[1] = Returned(ObjVal(<<>>), <<"direct">>)

C9_Witness ==
  /\ parsed # <<>>
  /\ TextOf(input) = <<" ">> \o BodyObject \o <<" ">>
  /\ parsed[1].ok
  /\ parsed[1].val.t = "obj"
  /\ DOMAIN parsed[1].val.o = {<<"a">>}

(***************************************************************************)
(* C10.  As claimed: for every text that holds a valid JSON object in a    *)
(* fenced block (tagged json or not), whatever the commentary before and   *)
(* after the block, cleanAndParseJSON returns that object.                 *)
(***************************************************************************)
FencedObject(in) ==
  in.fenced /\ JSONparse(in.body).ok /\ JSONparse(in.body).val.t = "obj"

C10_FencedObjectReturned ==
  (parsed # <<>> /\ FencedObject(input))
  => parsed[1].ok /\ parsed[1].val = JSONparse(input.body).val

(***************************************************************************)
(* C10, amended.  For every text that holds a valid JSON object in a       *)
(* fenced block (tagged json or not), cleanAndParseJSON returns that       *)
(* object, by the fenced-block parse, provided the text as a whole is not  *)
(* valid JSON, the commentary before the block holds no run of three grave *)
(* accents and does not end in a grave accent, and the object holds no run *)
(* of three grave accents; the commentary after the block is arbitrary.    *)
(***************************************************************************)
C10_FirstFencedObjectReturned ==
  ( /\ parsed # <<>>
    /\ FencedObject(input)
    /\ ~JSONparse(TextOf(input)).ok
    /\ ~includes(input.pre, Fence)
    /\ (input.pre = <<>> \/ input.pre[Len(input.pre)] # Tick)
    /\ ~includes(input.body, Fence) )
  => /\ parsed[1] = Returned(JSONparse(input.body).val, <<"direct", "fenced">>)
     /\ input.body = BodyObject => parsed[1].val = ObjVal(<<"a">> :> NumVal(1))

C10_Witness ==
  /\ parsed # <<>>
  /\ input.fenced
  /\ input.body = BodyObject
  /\ input.open = Fence \o JsonTag \o <<"\n">>
  /\ input.pre = <<Tick, "{">>
  /\ input.post = <<Tick, "{">>
  /\ parsed[1].ok
  /\ parsed[1].val = ObjVal(<<"a">> :> NumVal(1))

(***************************************************************************)
(* C11.  As claimed: for every text without a fenced block that holds a    *)
(* JSON object with commentary before its { and after its }, the span from *)
(* the first { to the last } is parsed and the object is returned.         *)
(***************************************************************************)
EmbeddedObject(in) ==
  /\ ~in.fenced
  /\ MatchFence(TextOf(in)) = <<>>
  /\ in.pre # <<>>
  /\ in.post # <<>>
  /\ JSONparse(in.body).ok
  /\ JSONparse(in.body).val.t = "obj"

C11_EmbeddedObjectReturned ==
  (parsed # <<>> /\ EmbeddedObject(input))
  => parsed[1].ok /\ parsed[1].val = JSONparse(input.body).val

(***************************************************************************)
(* C11, amended.  For every text without a fenced block that holds a JSON  *)
(* object with commentary before its { and after its }, the span from the  *)
(* first { to the last } is parsed and the object is returned, provided    *)
(* the text as a whole is not valid JSON, the commentary before holds no { *)
(* and the commentary after holds no }.                                    *)
(***************************************************************************)
C11_BraceSpanObjectReturned ==
  ( /\ parsed # <<>>
    /\ EmbeddedObject(input)
    /\ ~JSONparse(TextOf(input)).ok
    /\ indexOf(input.pre, "{") = -1
    /\ lastIndexOf(input.post, "}") = -1 )
  => /\ parsed[1] = Returned(JSONparse(input.body).val, <<"direct", "brace">>)
     /\ input.body = BodyObject => parsed[1].val = ObjVal(<<"a">> :> NumVal(1))

C11_Witness ==
  /\ parsed # <<>>
  /\ ~input.fenced
  /\ input.pre = <<"a">>
  /\ input.body = BodyObject
  /\ input.post = <<"{">>
  /\ parsed[1] = Returned(ObjVal(<<"a">> :> NumVal(1)), <<"direct", "brace">>)
(***************************************************************************)
(* C12.  The stages of cleanAndParseJSON run in the fixed order direct,    *)
(* fenced, brace span; a stage runs only if every earlier stage failed;    *)
(* the value returned is the result of the first stage, in that order,     *)
(* that parses; the brace span never runs when the direct parse or the     *)
(* fenced parse succeeds.                                                  *)
(***************************************************************************)
DirectStage(text) == JSONparse(text)

FencedStage(text) ==
  IF MatchFence(text) = <<>> THEN [ok |-> FALSE] ELSE JSONparse(MatchFence(text)[1])

BraceStage(text) ==
  IF indexOf(text, "{") = -1 \/ lastIndexOf(text, "}") = -1
  THEN [ok |-> FALSE]
  ELSE JSONparse(substring(text, indexOf(text, "{"), lastIndexOf(text, "}") + 1))

StageOrders ==
  {<<"direct">>, <<"direct", "fenced">>, <<"direct", "brace">>, <<"direct", "fenced", "brace">>}

Ran(stage) == \E k \in 1..Len(parsed[1].ran) : parsed[1].ran[k] = stage

C12_FirstParsingStageWins ==
  parsed # <<>> =>
    LET d == DirectStage(TextOf(input))
        f == FencedStage(TextOf(input))
        b == BraceStage(TextOf(input))
    IN /\ parsed[1].ran \in StageOrders
       /\ Ran("fenced") => ~d.ok
       /\ Ran("brace") => ~d.ok /\ ~f.ok
       /\ d.ok => parsed[1] = Returned(d.val, <<"direct">>)
       /\ (~d.ok /\ f.ok) => parsed[1] = Returned(f.val, <<"direct", "fenced">>)
       /\ (~d.ok /\ ~f.ok /\ b.ok) => parsed[1].ok /\ parsed[1].val = b.val /\ Ran("brace")
       /\ parsed[1].ok => d.ok \/ f.ok \/ b.ok

\* the fenced interior 1 wins over the object that the brace span would give
C12_Witness ==
  /\ parsed # <<>>
  /\ input = NestedFence
  /\ ~DirectStage(TextOf(input)).ok
  /\ BraceStage(TextOf(input)).ok
  /\ BraceStage(TextOf(input)).val.t = "obj"
  /\ parsed[1] = Returned(NumVal(1), <<"direct", "fenced">>)
(***************************************************************************)
(* C13.  The terminal failures not-configured, quota-exhausted and         *)
(* extraction have three different errors, and an invocation that ends for *)
(* one of these causes throws that cause's error, never another's: no      *)
(* credential gives 'API Key not found.', a quota failure of the last      *)
(* attempt gives the usage-limit error, and a text that no stage parses    *)
(* gives the error cleanAndParseJSON threw for it.                         *)
(***************************************************************************)
NotConfiguredErrors == {NewError(MsgApiKeyNotFound)}

QuotaExhaustedErrors == {NewError(MsgUsageLimit)}

C13_CausesKeepTheirErrors ==
  /\ NotConfiguredErrors \cap QuotaExhaustedErrors = {}
  /\ NotConfiguredErrors \cap ExtractionErrors = {}
  /\ QuotaExhaustedErrors \cap ExtractionErrors = {}
  /\ pc = "done" =>
       /\ ~ai => result.kind = "throw" /\ result.error \in NotConfiguredErrors
       /\ (ai /\ QuotaReject(LastObserved)) =>
            result.kind = "throw" /\ result.error \in QuotaExhaustedErrors
       /\ (ai /\ UnparseableText(LastObserved)) =>
            /\ result.kind = "throw"
            /\ result.error \in ExtractionErrors
            /\ result.error = cleanAndParseJSON(LastObserved.text[1]).error

\* a quota failure, then a text that no stage parses: the extraction error
C13_Witness ==
  /\ pc = "done"
  /\ Len(observed) = 2
  /\ QuotaReject(observed[1])
  /\ UnparseableText(observed[2])
  /\ result = Throw(NewError(MsgNoJSONFound))
(***************************************************************************)
(* Several invocations of fetchLatestPlayerStats at once.  attempts and    *)
(* delay are locals of the call (let, inside the async function); the      *)
(* invocations share only the module-level client ai.  Each invocation     *)
(* runs the same steps as the single one above, on its own record.         *)
(***************************************************************************)
ConcErrors ==
  {ApiError(<<429>>, <<<<"b", "u", "s", "y">>>>),
   ApiError(<<500>>, <<<<"d", "o", "w", "n">>>>)}

ConcTexts == {<<TextTwoFields>>, <<<<"n", "o">>>>}

\* the head of the while loop of one invocation with counter a
LoopHeadOf(l, a) ==
  IF a < maxAttempts
  THEN [l EXCEPT !.trace = Append(l.trace, CallEvent), !.pc = "awaiting"]
  ELSE [l EXCEPT !.pc = "done", !.result = Throw(NewError(MsgAfterLoop))]

\* the catch block of one invocation
CatchOf(l, error) ==
  IF isQuotaError(error) /\ l.attempts < maxAttempts - 1
  THEN [l EXCEPT !.trace = Append(l.trace, WaitEvent(l.delay)), !.pc = "waiting"]
  ELSE [l EXCEPT !.pc = "done",
                 !.result = IF isQuotaError(error)
                            THEN Throw(NewError(MsgUsageLimit))
                            ELSE Throw(error)]

\* the try block of one invocation after the backend has answered
TryOf(l, response) ==
  IF response.text = <<>> \/ response.text[1] = <<>>
  THEN CatchOf(l, NewError(MsgNoResponse))
  ELSE LET r == cleanAndParseJSON(response.text[1])
       IN IF ~r.ok THEN CatchOf(l, r.error)
          ELSE IF r.val.t = "null" THEN CatchOf(l, NullReadError)
          ELSE [l EXCEPT !.pc = "done",
                         !.result = Return(ReturnValue(r.val, response.sourceUrl))]

\* one invocation from its call to its first await
InvokeOf(l) ==
  IF ~ai
  THEN [l EXCEPT !.pc = "done", !.result = Throw(NewError(MsgApiKeyNotFound))]
  ELSE LoopHeadOf([l EXCEPT !.attempts = 0, !.delay = unit], 0)

\* one invocation receiving the outcome o of its backend call
ReceiveOf(l, o) ==
  IF o.kind = "reject"
  THEN CatchOf([l EXCEPT !.observed = Append(l.observed, o)], o.error)
  ELSE TryOf([l EXCEPT !.observed = Append(l.observed, o)], o)

\* one invocation from the end of its wait to its next await
WaitElapsedOf(l) ==
  LoopHeadOf([l EXCEPT !.delay = l.delay * 2, !.attempts = l.attempts + 1], l.attempts + 1)

InvokeAt(i) ==
  /\ invs[i].pc = "idle"
  /\ invs' = [invs EXCEPT ![i] = InvokeOf(invs[i])]

ReceiveAt(i, o) ==
  /\ invs[i].pc = "awaiting"
  /\ invs' = [invs EXCEPT ![i] = ReceiveOf(invs[i], o)]

\* the end of a wait with attempts and delay declared at module level: one
\* counter and one delay for all invocations
WaitElapsedAtShared(i) ==
  /\ invs[i].pc = "waiting"
  /\ invs' = [j \in Invocations |->
                IF j = i
                THEN WaitElapsedOf(invs[i])
                ELSE [invs[j] EXCEPT !.delay = invs[i].delay * 2,
                                     !.attempts = invs[i].attempts + 1]]

WaitElapsedAt(i) ==
  /\ invs[i].pc = "waiting"
  /\ invs' = [invs EXCEPT ![i] = WaitElapsedOf(invs[i])]

ConcInvoke ==
  /\ \E i \in Invocations : InvokeAt(i)
  /\ UNCHANGED <<execVars, normVars>>

ConcBackendResolves ==
  /\ \E i \in Invocations, text \in ConcTexts : ReceiveAt(i, Resolved(text, <<>>))
  /\ UNCHANGED <<execVars, normVars>>

ConcBackendRejects ==
  /\ \E i \in Invocations, error \in ConcErrors : ReceiveAt(i, Rejected(error))
  /\ UNCHANGED <<execVars, normVars>>

ConcWaitElapsed ==
  /\ \E i \in Invocations : WaitElapsedAt(i)
  /\ UNCHANGED <<execVars, normVars>>

NextConc == ConcInvoke \/ ConcBackendResolves \/ ConcBackendRejects \/ ConcWaitElapsed

SpecConc == Init /\ [][NextConc]_vars

(***************************************************************************)
(* C14.  Concurrent invocations do not interfere: under every interleaving *)
(* the backend calls, the backoff delays and the terminal outcome of each  *)
(* invocation are those of an invocation that runs alone and receives the  *)
(* same backend outcomes; they depend on nothing but the outcomes that     *)
(* invocation itself observed.                                             *)
(***************************************************************************)
RECURSIVE Alone(_)
\* the locals of an invocation that runs alone, just after it has received
\* the last of the outcomes obs
Alone(obs) ==
  IF obs = <<>>
  THEN InvokeOf(NotInvoked)
  ELSE LET before == Alone(SubSeq(obs, 1, Len(obs) - 1))
       IN ReceiveOf(IF before.pc = "waiting" THEN WaitElapsedOf(before) ELSE before,
                    obs[Len(obs)])

C14_AsIfAlone ==
  \A i \in Invocations :
    invs[i].pc # "idle" =>
      LET alone == Alone(invs[i].observed)
      IN \/ invs[i] = alone
         \/ alone.pc = "waiting" /\ invs[i] = WaitElapsedOf(alone)

\* one invocation has failed after one call while the other, which shared
\* the time with it, is in its third call after the waits unit and 2 * unit
C14_Witness ==
  /\ invs[1].pc = "done"
  /\ invs[1].trace = <<CallEvent>>
  /\ invs[1].result.kind = "throw"
  /\ invs[2].pc = "awaiting"
  /\ invs[2].attempts = 2
  /\ invs[2].trace = <<CallEvent, WaitEvent(unit), CallEvent, WaitEvent(2 * unit), CallEvent>>
(***************************************************************************)
(* C15.  A failure leads to a backoff wait exactly when it is quota-       *)
(* classified (status 429, or a message containing 429, RESOURCE_EXHAUSTED *)
(* or quota) and attempts < maxAttempts - 1, i.e. attempts is 0 or 1.      *)
(* Every other failure, an error with neither status nor message included, *)
(* ends the invocation with a throw.                                       *)
(***************************************************************************)
\* the response makes the try block throw
FailedAttempt(o) ==
  /\ o.kind = "resolve"
  /\ \/ o.text = <<>>
     \/ o.text[1] = <<>>
     \/ ~cleanAndParseJSON(o.text[1]).ok
     \/ cleanAndParseJSON(o.text[1]).val = NullVal

C15_BackoffIffQuotaAndAttemptsLeft ==
  [][Receives =>
       /\ QuotaReject(Received) /\ attempts \in {0, 1} =>
            pc' = "waiting" /\ result' = NoResult
       /\ pc' = "waiting" =>
            QuotaReject(Received) /\ attempts < maxAttempts - 1
       /\ (OtherReject(Received) \/ FailedAttempt(Received)
             \/ (QuotaReject(Received) /\ attempts \notin {0, 1})) =>
            pc' = "done" /\ result'.kind = "throw"]_vars

\* the second failure has status 503 and the word quota in its message
C15_Witness ==
  /\ pc = "waiting"
  /\ attempts = 1
  /\ Len(observed) = 2
  /\ observed[2] = Rejected(ApiError(<<503>>,
         <<<<"n", "o", " ", "q", "u", "o", "t", "a", " ", "l", "e", "f", "t">>>>))
(***************************************************************************)
(* C16.  When cleanAndParseJSON fails, its error tells which stage was     *)
(* attempted last: 'Failed to parse JSON from response' exactly when the   *)
(* brace span was attempted last, and otherwise an error that identifies   *)
(* the last stage attempted, so that a failure after a fenced block that   *)
(* did not parse is not reported with the error of a failure in which only *)
(* the direct parse ran.  The code throws 'No JSON found in response' in   *)
(* both cases.                                                             *)
(***************************************************************************)
LastStage == parsed[1].ran[Len(parsed[1].ran)]

\* the error of a failure in which the direct parse is the only stage run
DirectOnlyError == cleanAndParseJSON(<<"a">>).error

C16_ErrorNamesLastStage ==
  (parsed # <<>> /\ ~parsed[1].ok) =>
    /\ parsed[1].error = NewError(MsgFailedToParse) <=> LastStage = "brace"
    /\ LastStage = "fenced" => parsed[1].error # DirectOnlyError

\* the part of C16 that the code keeps
C16_FailedToParseIffBraceLast ==
  (parsed # <<>> /\ ~parsed[1].ok) =>
    (parsed[1].error = NewError(MsgFailedToParse) <=> LastStage = "brace")
(***************************************************************************)
(* C17.  An invocation starts with attempts = 0 and delay = unit (2000, or *)
(* 3000 in the thinking variant).  Whenever a backend call has just been   *)
(* issued, 0 <= attempts <= maxAttempts - 1 and delay = unit * 2^attempts. *)
(* attempts and delay change only in the backoff step, after the wait:     *)
(* delay doubles and attempts grows by exactly 1.                          *)
(***************************************************************************)
C17_Started == pc = "idle" /\ attempts' = 0 /\ delay' = unit /\ pc' \in {"awaiting", "done"}

C17_BackedOff == pc = "waiting" /\ attempts' = attempts + 1 /\ delay' = 2 * delay

C17_AttemptState ==
  /\ [](pc = "awaiting" =>
          /\ 0 <= attempts
          /\ attempts <= maxAttempts - 1
          /\ delay = unit * 2^attempts
          /\ CallCount = attempts + 1)
  /\ [][pc = "idle" /\ ai => C17_Started]_vars
  /\ [][(attempts' # attempts \/ delay' # delay) => (C17_Started \/ C17_BackedOff)]_vars
  /\ [][pc = "waiting" => C17_BackedOff]_vars

\* the third call is out: two backoff steps have been taken
C17_Witness ==
  /\ pc = "awaiting"
  /\ attempts = maxAttempts - 1
  /\ delay = 4 * unit
  /\ unit = InitialDelayThinking
(***************************************************************************)
(* C18.  As claimed: the usage-limit error is thrown only after exactly 3  *)
(* backend calls that all failed with a quota-classified error; when quota *)
(* failures are followed by a non-quota failure the invocation throws that *)
(* original error; when they are followed by a success of the backend call *)
(* no error is thrown.                                                     *)
(***************************************************************************)
AllQuotaRejects == \A k \in DOMAIN observed : QuotaReject(observed[k])

\* the last outcome came after one or more quota failures
AfterQuotaFailures ==
  Len(observed) > 1 /\ \A k \in 1..(Len(observed) - 1) : QuotaReject(observed[k])

UsageLimitOnlyAfterThree ==
  result = Throw(NewError(MsgUsageLimit)) =>
    CallCount = maxAttempts /\ Len(observed) = maxAttempts /\ AllQuotaRejects

OriginalErrorRethrown ==
  (AfterQuotaFailures /\ OtherReject(LastObserved)) =>
    result = Throw(LastObserved.error)

C18_QuotaThenSuccessNoError ==
  pc = "done" =>
    /\ UsageLimitOnlyAfterThree
    /\ OriginalErrorRethrown
    /\ (AfterQuotaFailures /\ LastObserved.kind = "resolve") =>
         result.kind # "throw"

(***************************************************************************)
(* C18, amended.  The usage-limit error is thrown only after exactly 3     *)
(* backend calls that all failed with a quota-classified error; when quota *)
(* failures are followed by a non-quota failure the invocation throws that *)
(* original error; when they are followed by a response the usage-limit    *)
(* error is not thrown: the invocation returns the record, or throws the   *)
(* error its try block raised for that response (no text, a text that no   *)
(* stage parses, a text that parses to null).                              *)
(***************************************************************************)
\* what the try block throws for the response o
TryError(o) ==
  IF o.text = <<>> \/ o.text[1] = <<>> THEN NewError(MsgNoResponse)
  ELSE IF ~cleanAndParseJSON(o.text[1]).ok THEN cleanAndParseJSON(o.text[1]).error
  ELSE NullReadError

C18_QuotaThenResponseNoUsageLimit ==
  pc = "done" =>
    /\ UsageLimitOnlyAfterThree
    /\ OriginalErrorRethrown
    /\ (AfterQuotaFailures /\ LastObserved.kind = "resolve") =>
         /\ result # Throw(NewError(MsgUsageLimit))
         /\ FailedAttempt(LastObserved) => result = Throw(TryError(LastObserved))
         /\ ~FailedAttempt(LastObserved) => result.kind = "return"

\* two quota failures, then a response without text
C18_Witness ==
  /\ pc = "done"
  /\ Len(observed) = 3
  /\ QuotaReject(observed[1])
  /\ QuotaReject(observed[2])
  /\ observed[3].kind = "resolve"
  /\ observed[3].text = <<>>
  /\ result = Throw(NewError(MsgNoResponse))
(***************************************************************************)
(* The single invocation under the assumptions that every backend call is  *)
(* answered and that every wait elapses: the promise of generateContent    *)
(* settles and the timer of wait fires.  Nothing forces a caller to invoke *)
(* the function.                                                           *)
(***************************************************************************)
SpecLive ==
  /\ Init
  /\ [][Next]_vars
  /\ WF_vars(BackendResolves \/ BackendRejects)
  /\ WF_vars(WaitElapsed)

(***************************************************************************)
(* C19.  Every invocation ends: whatever the backend outcomes are, if each *)
(* backend call is answered and each wait elapses, the invocation reaches  *)
(* Done.  Once it is there, no backend call is issued and no wait starts.  *)
(***************************************************************************)
C19_EventuallyDone ==
  /\ (pc # "idle") ~> (pc = "done")
  /\ [][pc = "done" => pc' = "done" /\ trace' = trace /\ result' = result]_vars
  /\ [](pc = "done" => ~ENABLED Next)

\* Done after the longest run: three calls and two waits
C19_Witness ==
  /\ pc = "done"
  /\ CallCount = maxAttempts
  /\ WaitCount = maxAttempts - 1
  /\ result.kind = "return"
(***************************************************************************)
(* C20.  Within one invocation at most one backend request is outstanding  *)
(* at any time and none is issued while a backoff wait is in progress:     *)
(* call k + 1 is issued only after call k has failed and the wait that     *)
(* follows it has elapsed.                                                 *)
(***************************************************************************)
\* backend calls issued and not yet answered
Outstanding == CallCount - Len(observed)

\* the step issues a backend call
IssuesCall == Len(trace') = Len(trace) + 1 /\ trace'[Len(trace')] = CallEvent

C20_OneCallAtATime ==
  /\ [](/\ Outstanding = (IF pc = "awaiting" THEN 1 ELSE 0)
        /\ Alternates
        /\ pc = "waiting" =>
             /\ trace[Len(trace)].e = "wait"
             /\ QuotaReject(LastObserved)
        /\ \A k \in 1..(CallCount - 1) : QuotaReject(observed[k]))
  /\ [][IssuesCall =>
          /\ Outstanding = 0
          /\ pc \in {"idle", "waiting"}
          /\ pc = "waiting" => Len(observed) = CallCount /\ WaitCount = CallCount]_vars

\* the second call is out: the first has failed and its wait is over
C20_Witness ==
  /\ pc = "awaiting"
  /\ trace = <<CallEvent, WaitEvent(unit), CallEvent>>
  /\ Len(observed) = 1
  /\ Outstanding = 1
(***************************************************************************)
(* C21.  The statement after the retry loop (the throw of 'Failed to fetch *)
(* stats after multiple attempts.') is unreachable: the loop condition     *)
(* attempts < maxAttempts is never found false, and every invocation that  *)
(* enters the loop ends inside its body, in the step that receives a       *)
(* backend outcome, by the return of the record, the usage-limit throw or  *)
(* the rethrow of the original error.                                      *)
(***************************************************************************)
\* the error that the last attempt raised
OriginalError ==
  IF LastObserved.kind = "reject" THEN LastObserved.error ELSE TryError(LastObserved)

C21_AfterLoopUnreachable ==
  /\ [](result # Throw(NewError(MsgAfterLoop)))
  /\ [][(pc = "idle" /\ ai) => attempts' < maxAttempts]_vars
  /\ [][pc = "waiting" => attempts + 1 < maxAttempts /\ pc' = "awaiting"]_vars
  /\ [][(ai /\ pc # "done" /\ pc' = "done") => Receives]_vars
  /\ []((ai /\ pc = "done") =>
          /\ observed # <<>>
          /\ Len(observed) = CallCount
          /\ \/ result.kind = "return"
             \/ result = Throw(NewError(MsgUsageLimit))
             \/ result = Throw(OriginalError))

\* the invocation ends in the body of the third and last iteration
C21_Witness ==
  /\ pc = "done"
  /\ attempts = maxAttempts - 1
  /\ CallCount = maxAttempts
  /\ result.kind = "throw"
  /\ result.error # NewError(MsgAfterLoop)
(***************************************************************************)
(* C22.  When a backend call succeeds with an empty or absent text, the    *)
(* invocation ends on that attempt with the error 'No response from AI':   *)
(* cleanAndParseJSON is not called, no wait starts and no further backend  *)
(* call is issued.                                                         *)
(***************************************************************************)
NoText(o) == o.kind = "resolve" /\ (o.text = <<>> \/ o.text[1] = <<>>)

C22_NoTextFailsAtOnce ==
  /\ [][(Receives /\ NoText(Received)) =>
          /\ pc' = "done"
          /\ result' = Throw(NewError(MsgNoResponse))
          /\ parses' = parses
          /\ trace' = trace
          /\ attempts' = attempts]_vars
  /\ []((pc = "done" /\ observed # <<>> /\ NoText(LastObserved)) =>
          /\ ~ENABLED Next
          /\ CallCount = Len(observed)
          /\ WaitCount = Len(observed) - 1)

\* the first call is answered with the empty string
C22_Witness ==
  /\ pc = "done"
  /\ observed = <<Resolved(<<<<>>>>, <<>>)>>
  /\ parses = <<>>
  /\ trace = <<CallEvent>>
  /\ result = Throw(NewError(MsgNoResponse))
(***************************************************************************)
(* C23.  For a text that the direct parse rejects and that has no fenced   *)
(* block, in which both { and } occur but the last } comes before the      *)
(* first {, cleanAndParseJSON fails with the extraction error; it never    *)
(* returns a value taken from the characters between that } and that {.    *)
(* The code hands start > end + 1 to substring, which swaps its arguments. *)
(***************************************************************************)
BracesReversed(text) ==
  /\ ~JSONparse(text).ok
  /\ MatchFence(text) = <<>>
  /\ indexOf(text, "{") # -1
  /\ lastIndexOf(text, "}") # -1
  /\ lastIndexOf(text, "}") < indexOf(text, "{")

C23_ReversedBracesThrow ==
  (parsed # <<>> /\ BracesReversed(TextOf(input))) =>
    ~parsed[1].ok /\ parsed[1].error \in ExtractionErrors
(***************************************************************************)
(* C24.  When the direct parse fails and a fenced block is found whose     *)
(* interior does not parse, cleanAndParseJSON does not fail there: it goes *)
(* on to the brace span of the whole original text, not of the interior,   *)
(* and returns the parse of the span from the first { to the last } when   *)
(* that span parses.                                                       *)
(***************************************************************************)
FencedInteriorFails(text) ==
  /\ ~JSONparse(text).ok
  /\ MatchFence(text) # <<>>
  /\ ~JSONparse(MatchFence(text)[1]).ok

\* the characters from the first { to the last } of text, when the { comes first
HasSpan(text) ==
  /\ indexOf(text, "{") # -1
  /\ indexOf(text, "{") < lastIndexOf(text, "}")

Span(text) == SubSeq(text, indexOf(text, "{") + 1, lastIndexOf(text, "}") + 1)

C24_FailedFenceFallsToBraceSpan ==
  (parsed # <<>> /\ FencedInteriorFails(TextOf(input))) =>
    /\ parsed[1].ran \in {<<"direct", "fenced">>, <<"direct", "fenced", "brace">>}
    /\ HasSpan(TextOf(input)) => parsed[1].ran = <<"direct", "fenced", "brace">>
    /\ (HasSpan(TextOf(input)) /\ JSONparse(Span(TextOf(input))).ok) =>
         parsed[1] = Returned(JSONparse(Span(TextOf(input))).val,
                              <<"direct", "fenced", "brace">>)
    /\ (HasSpan(TextOf(input)) /\ ~JSONparse(Span(TextOf(input))).ok) =>
         ~parsed[1].ok /\ parsed[1].error = NewError(MsgFailedToParse)

\* the block is closed by the fence inside the string of the object: its
\* interior has no } while the span of the whole text is the object
C24_Witness ==
  /\ parsed # <<>>
  /\ input.fenced
  /\ input.pre = <<"a">>
  /\ input.body = BodyObjectWithFence
  /\ FencedInteriorFails(TextOf(input))
  /\ lastIndexOf(MatchFence(TextOf(input))[1], "}") = -1
  /\ Span(TextOf(input)) = BodyObjectWithFence
  /\ parsed[1] = Returned(JSONparse(BodyObjectWithFence).val, <<"direct", "fenced", "brace">>)

====
